---------------------------- MODULE Spec2Model ----------------------------
(***************************************************************************)
(* Listen-Attend-Spell network (asr/models/las/network.py): the teacher-   *)
(* forcing scheduler, the decoder loop of Speller.forward with its early   *)
(* termination, the inference and training wrappers of ListenAttendSpell,  *)
(* the shape arithmetic of Listener and the masked softmax of Attention.   *)
(*                                                                         *)
(* Python floats are modelled as exact rationals [num, den] in lowest      *)
(* terms; an optional argument (None or a value) as a sequence of length   *)
(* 0 or 1.                                                                 *)
(***************************************************************************)
EXTENDS Integers, Sequences, FiniteSets, TLC

(* ------------------------------ bounds --------------------------------- *)
\* ratios handed to TFRScheduler are k / RatioDen, 0 <= k < RatioDen
RatioDen == 3
\* largest warm_up handed to TFRScheduler
MaxWarmUp == 2
\* largest epochs (length of the decay span) handed to TFRScheduler
MaxEpochs == 3
\* the epoch counter is followed up to two epochs past the longest decay span
EpochCap == MaxWarmUp + MaxEpochs + 2
\* largest batch of an inference call of the decoder
MaxBatch == 2
\* largest max_seq_lens a Speller is built with
MaxSeqLens == 4
\* largest batch of a training call of the decoder
MaxTrainBatch == 1
\* largest max_seq_lens where the ratio a scheduler wrote varies (SpecSample)
MaxSampleSeqLens == 5
\* longest label sequence of a training batch
MaxLabelLen == 1
\* np.random.random_sample() gives k / DrawDen, 0 <= k < DrawDen, and so does
\* the ratio a scheduler has written to the decoder
DrawDen == 2
\* largest batch handed to the training path's filter
MaxFilterBatch == 2
\* largest batch and longest time extent handed to the encoder
MaxListenBatch == 3
MaxTime == 5
\* largest batch, most positions and largest score (in units of ln 16) handed
\* to the attention's normalisation
MaxAttendBatch == 2
MaxAttendTime == 2
MaxScore == 1

(* ----------------------------- rationals ------------------------------- *)
Abs(n) == IF n < 0 THEN -n ELSE n

RECURSIVE Gcd(_, _)
Gcd(a, b) == IF b = 0 THEN a ELSE Gcd(b, a % b)

\* the rational n / d (d > 0) in lowest terms
Q(n, d) == LET g == Gcd(Abs(n), d) IN [num |-> n \div g, den |-> d \div g]

QInt(n) == Q(n, 1)
\* sums and comparisons go over the least common denominator, products and
\* quotients cancel crosswise first, which keeps the numbers small
QAdd(a, b) ==
    LET g == Gcd(a.den, b.den)
    IN Q(a.num * (b.den \div g) + b.num * (a.den \div g), (a.den \div g) * b.den)
QNeg(a) == [num |-> 0 - a.num, den |-> a.den]
QSub(a, b) == QAdd(a, QNeg(b))
QMul(a, b) ==
    LET g == Gcd(Abs(a.num), b.den)
        h == Gcd(Abs(b.num), a.den)
    IN Q((a.num \div g) * (b.num \div h), (a.den \div h) * (b.den \div g))
\* a / b for b > 0
QDiv(a, b) == QMul(a, [num |-> b.den, den |-> b.num])
QLt(a, b) ==
    LET g == Gcd(a.den, b.den)
    IN a.num * (b.den \div g) < b.num * (a.den \div g)
QLe(a, b) == ~ QLt(b, a)

VARIABLES
    \* TFRScheduler fields
    restart, upper, lower, warm_up, end_epochs, slope, last_epoch,
    \* Speller.tfr, the field the scheduler writes (self.model.tfr)
    tfr,
    \* history: the epoch argument of the last step() call (<<>> for None),
    \* and last_epoch and tfr as they were when it was made
    step_arg, prev_epoch, prev_tfr,
    \* Speller.max_seq_lens
    max_seq_lens,
    \* ListenAttendSpell.forward / Speller.forward: where the call stands
    \* ("idle", "loop", "break", "returned") and which path runs it
    \* ("eval", "train")
    pc, mode,
    \* Speller.forward locals: h.size(0); y.size(1) as <<n>>, or <<>> for y = None;
    \* the loop index; the arg-max labels of the y_hat appended at each step
    \* (one per sample); the number of attention traces appended; the per-sample
    \* lengths; the ring buffer of end-of-sequence indicators; the label part of
    \* the decoder input x
    batch_size, y_size, t, y_hats, attentions, y_hats_seq_lens, bi, x,
    \* history: the value np.random.random_sample() gave for x (<<>> when it was
    \* not called), and how often each sample's length has been written
    draw, writes,
    \* what Speller.forward returned: time extents of y_hats and attentions
    y_hats_size1, attentions_size2,
    \* what ListenAttendSpell.forward returned: the lengths, the time extent of
    \* the distributions and of the targets
    out_seq_lens, out_size1, ys_size1,
    \* Listener.forward: the shape of x (batch, channel, frequency, time), its
    \* seq_lens, the shape of the feature map h and of the returned y
    x_size, seq_lens, h_size, listen_size,
    \* Attention's MaskedSoftmax: the scores e (per sample and position, in
    \* units of ln 16), the mask, and the weights returned
    scores, len_mask, weights,
    \* _train_forward's filter: x_seq_lens and y_seq_lens as passed, the mask bi,
    \* and x_seq_lens and ys_seq_lens as handed to the encoder and the decoder
    in_x_seq_lens, in_y_seq_lens, keep, x_seq_lens, ys_seq_lens

sched_vars == <<restart, upper, lower, warm_up, end_epochs, slope, last_epoch,
                step_arg, prev_epoch, prev_tfr>>

(* --------------------------- TFRScheduler ------------------------------ *)
\* TFRScheduler.__init__(model, ranges=(u, l), warm_up=w, epochs=n, restart=r);
\* the assert on the ranges and a non-zero epochs (the division) are the
\* constructor's preconditions.  The decoder's tfr is still Speller's 1.0.
TFRScheduler_init(u, l, w, n, r) ==
    /\ QLe(QInt(0), l) /\ QLe(l, u) /\ QLt(u, QInt(1))
    /\ restart = r
    /\ upper = u
    /\ lower = l
    /\ warm_up = w
    /\ end_epochs = n + w
    /\ slope = QDiv(QSub(l, u), QInt(n))
    /\ last_epoch = -1

get_tfr_no_offset ==
    IF last_epoch' < warm_up THEN upper
    ELSE IF last_epoch' < end_epochs
         THEN QAdd(upper, QMul(slope, QInt(last_epoch')))
         ELSE lower

\* TFRScheduler.get_tfr, read after step() has written last_epoch
get_tfr ==
    IF last_epoch' < warm_up THEN upper
    ELSE IF last_epoch' < end_epochs
         THEN QAdd(upper, QMul(slope, QInt(last_epoch' - warm_up)))
         ELSE lower

restart_epoch_at_warm_up ==
    IF restart /\ last_epoch = end_epochs THEN warm_up - 1 ELSE last_epoch

\* the counter step() counts on from: -1 again at a restart
restart_epoch ==
    IF restart /\ last_epoch = end_epochs THEN -1 ELSE last_epoch

\* TFRScheduler.step(epoch): epoch is <<>> (None) or <<e>>
step(epoch) ==
    /\ last_epoch' = IF Len(epoch) = 0 THEN restart_epoch + 1 ELSE epoch[1]
    /\ last_epoch' <= EpochCap
    /\ tfr' = get_tfr
    /\ step_arg' = epoch
    /\ prev_epoch' = last_epoch
    /\ prev_tfr' = tfr
    /\ UNCHANGED <<restart, upper, lower, warm_up, end_epochs, slope>>

Ratios == {Q(k, RatioDen) : k \in 0..(RatioDen - 1)}

\* no scheduler constructed
NoScheduler ==
    /\ restart = FALSE /\ upper = QInt(0) /\ lower = QInt(0) /\ warm_up = 0
    /\ end_epochs = 0 /\ slope = QInt(0) /\ last_epoch = -1
    /\ step_arg = <<>> /\ prev_epoch = -1 /\ prev_tfr = QInt(1)

(* ------------------------------ Speller -------------------------------- *)
\* Speller.__init__: the vocabulary, with sos and eos its last two ids as
\* ListenAttendSpell hands them over.  The decoder reads an arg-max label only
\* through .eq(self.eos), so one label besides eos stands for all the others.
label_vec_size == 2
sos == label_vec_size - 2
eos == label_vec_size - 1
num_eos == 3

Labels == 0..(label_vec_size - 1)
Samples == 1..batch_size

spell_vars == <<pc, mode, batch_size, y_size, t, y_hats, attentions,
                y_hats_seq_lens, bi, x, draw, writes, y_hats_size1,
                attentions_size2, out_seq_lens, out_size1, ys_size1>>

\* no forward call made yet
NoCall ==
    /\ pc = "idle" /\ mode = "eval" /\ batch_size = 0 /\ y_size = <<>> /\ t = 0
    /\ y_hats = <<>> /\ attentions = 0 /\ y_hats_seq_lens = <<>>
    /\ bi = <<>> /\ x = [src |-> "sos", idx |-> -1] /\ draw = <<>>
    /\ writes = <<>> /\ y_hats_size1 = 0 /\ attentions_size2 = 0
    /\ out_seq_lens = <<>> /\ out_size1 = 0 /\ ys_size1 = 0

\* Speller.forward(h, x_seq_lens, y, y_seq_lens) up to the loop, for a batch of
\* bs samples and targets y of time extent ys[1] (ys = <<>>: y is None)
Speller_forward(bs, ys) ==
    /\ batch_size' = bs
    /\ y_size' = ys
    /\ y_hats' = <<>>
    /\ attentions' = 0
    /\ x' = [src |-> "sos", idx |-> -1]
    /\ y_hats_seq_lens' = [b \in 1..bs |-> max_seq_lens]
    /\ bi' = [i \in 0..(num_eos - 1) |-> [b \in 1..bs |-> 0]]
    /\ t' = 0
    /\ draw' = <<>>
    /\ writes' = [b \in 1..bs |-> 0]
    /\ pc' = "loop"
    /\ y_hats_size1' = 0 /\ attentions_size2' = 0
    /\ out_seq_lens' = <<>> /\ out_size1' = 0 /\ ys_size1' = 0

\* bi.prod(dim=0, dtype=torch.uint8) for sample b
RECURSIVE bi_prod(_, _, _)
bi_prod(buf, b, i) ==
    IF i = num_eos THEN 1 ELSE buf[i][b] * bi_prod(buf, b, i + 1)

ring_slot_fixed(at) == 0

\* the ring buffer slot written at loop index at
ring_slot(at) == at % num_eos

ri_always(lens, at) == [b \in DOMAIN lens |-> 1]

\* ri = y_hats_seq_lens.gt(t)
ri_of(lens, at) == [b \in DOMAIN lens |-> IF lens[b] > at THEN 1 ELSE 0]

\* the mask bi.prod(...) * ri that line 310 writes t + 1 through
freeze_mask(buf, lens, at) ==
    [b \in DOMAIN lens |-> bi_prod(buf, b, 0) * ri_of(lens, at)[b]]

is_sample_step_geq(r) == ~ QLt(r, tfr)

\* Speller._is_sample_step with r the value of np.random.random_sample()
is_sample_step(r) == QLt(r, tfr)

\* lines 316-321: the input of the next step, r = <<>> when nothing is drawn
next_input(r) ==
    IF Len(y_size) = 0 \/ ~ is_sample_step(r[1])
    THEN [src |-> "y_hat", idx |-> t]
    ELSE IF t < y_size[1]
         THEN [src |-> "y", idx |-> t]
         ELSE [src |-> "eos", idx |-> -1]

early_stop_first(lens, at) == \E b \in DOMAIN lens : lens[b] <= at + 1

\* y_hats_seq_lens.le(t + 1).all()
early_stop(lens, at) == \A b \in DOMAIN lens : lens[b] <= at + 1

\* one iteration of the decode loop (lines 296-321): am[b] is the arg-max
\* label of y_hat for sample b, drawn the random draw (<<>> when y is None:
\* _is_sample_step is not called then)
DecodeStep(am, drawn) ==
    /\ pc = "loop"
    /\ t < max_seq_lens
    /\ LET bi1 == [bi EXCEPT ![ring_slot(t)] =
                      [b \in Samples |-> IF am[b] = eos THEN 1 ELSE 0]]
           m == freeze_mask(bi1, y_hats_seq_lens, t)
           lens1 == [b \in Samples |->
                       IF m[b] # 0 THEN t + 1 ELSE y_hats_seq_lens[b]]
       IN /\ y_hats' = Append(y_hats, am)
          /\ attentions' = attentions + 1
          /\ bi' = bi1
          /\ y_hats_seq_lens' = lens1
          /\ writes' = [b \in Samples |->
                          IF m[b] # 0 THEN writes[b] + 1 ELSE writes[b]]
          /\ IF early_stop(lens1, t)
             THEN /\ pc' = "break"
                  /\ UNCHANGED <<t, x, draw>>
             ELSE /\ x' = next_input(drawn)
                  /\ draw' = drawn
                  /\ t' = t + 1
                  /\ pc' = IF t + 1 < max_seq_lens THEN "loop" ELSE "break"
    /\ UNCHANGED <<mode, batch_size, y_size, y_hats_size1, attentions_size2,
                   out_seq_lens, out_size1, ys_size1>>

\* lines 323-326: the concatenations, and the return
Speller_return ==
    /\ pc = "break"
    /\ y_hats_size1' = Len(y_hats)
    /\ attentions_size2' = attentions
    /\ UNCHANGED <<batch_size, y_size, t, y_hats, attentions,
                   y_hats_seq_lens, bi, x, draw, writes>>

\* y_hats_seq_lens[mask]: indexing a tensor by a mask builds a new tensor that
\* holds the selected entries
masked_select(lens, mask) ==
    LET RECURSIVE sel(_)
        sel(b) == IF b > Len(lens) THEN <<>>
                  ELSE (IF mask[b] THEN <<lens[b]>> ELSE <<>>) \o sel(b + 1)
    IN sel(1)

\* tensor.sub_(n): in place on the tensor it is called on
sub_(tensor, n) == [i \in DOMAIN tensor |-> tensor[i] - n]

\* line 454: the subtraction is applied to the tensor the mask indexing built,
\* which is dropped; y_hats_seq_lens itself is what line 458 returns
eval_seq_lens(lens) ==
    LET selected == masked_select(lens, [b \in DOMAIN lens |-> lens[b] # max_seq_lens])
        dropped == sub_(selected, num_eos)
    IN lens

Max2(a, b) == IF a > b THEN a ELSE b

(* -------------------------- ListenAttendSpell -------------------------- *)
\* ListenAttendSpell._eval_forward up to the decoder's loop (lines 451-453)
eval_forward(bs) ==
    /\ pc \in {"idle", "returned"}
    /\ mode' = "eval"
    /\ Speller_forward(bs, <<>>)
    /\ UNCHANGED <<tfr, max_seq_lens>>

\* ListenAttendSpell._train_forward from the call of the decoder (line 431) up
\* to the decoder's loop, with bs retained samples and targets padded to ys
train_forward(bs, ys) ==
    /\ pc \in {"idle", "returned"}
    /\ mode' = "train"
    /\ Speller_forward(bs, <<ys>>)
    /\ UNCHANGED <<tfr, max_seq_lens>>

\* the decoder returns to _eval_forward, which returns (lines 454-458)
eval_forward_return ==
    /\ mode = "eval"
    /\ Speller_return
    /\ out_seq_lens' = eval_seq_lens(y_hats_seq_lens)
    /\ out_size1' = y_hats_size1'
    /\ ys_size1' = 0
    /\ pc' = "returned"
    /\ UNCHANGED <<mode, tfr, max_seq_lens>>

\* the decoder returns to _train_forward, which returns (lines 434-447): the
\* shorter of y_hats and ys is padded to the other's time extent
train_forward_return ==
    /\ mode = "train"
    /\ Speller_return
    /\ out_seq_lens' = y_hats_seq_lens
    /\ out_size1' = Max2(y_hats_size1', y_size[1])
    /\ ys_size1' = Max2(y_hats_size1', y_size[1])
    /\ pc' = "returned"
    /\ UNCHANGED <<mode, tfr, max_seq_lens>>

Draws == {Q(k, DrawDen) : k \in 0..(DrawDen - 1)}

\* line 364 as the decoder sees it: ahead of the forward calls a scheduler
\* writes a ratio of [0, 1) to Speller.tfr
write_tfr(r) ==
    /\ pc = "idle"
    /\ tfr' = r
    /\ UNCHANGED <<spell_vars, max_seq_lens>>

\* _train_forward, lines 413-425: the mask of the samples kept, and the lengths
\* of the kept ones (xl, yl: x_seq_lens and y_seq_lens of the batch)
keep_mask(xl, yl) ==
    [b \in DOMAIN xl |-> xl[b] > yl[b] /\ yl[b] < max_seq_lens]

train_filter ==
    /\ keep = <<>>
    /\ keep' = keep_mask(in_x_seq_lens, in_y_seq_lens)
    /\ x_seq_lens' = masked_select(in_x_seq_lens, keep')
    /\ ys_seq_lens' = [i \in DOMAIN masked_select(in_y_seq_lens, keep') |->
                          masked_select(in_y_seq_lens, keep')[i] + num_eos]
    /\ UNCHANGED <<in_x_seq_lens, in_y_seq_lens>>

\* _train_forward not yet called on the batch with lengths xl and yl
NotFiltered(xl, yl) ==
    /\ in_x_seq_lens = xl /\ in_y_seq_lens = yl /\ keep = <<>>
    /\ x_seq_lens = <<>> /\ ys_seq_lens = <<>>

NoFilter == NotFiltered(<<>>, <<>>)

filter_vars == <<in_x_seq_lens, in_y_seq_lens, keep, x_seq_lens, ys_seq_lens>>

(* ------------------------------ Listener ------------------------------- *)
\* Listener.__init__: the spectrogram's frequency extent and the channels
W0 == 129
C1 == 64
input_folding == 2
rnn_hidden_size == 256

\* output extent of nn.Conv2d and nn.AvgPool2d along one axis
out_extent(in, kernel, stride, padding) ==
    (in + 2 * padding - kernel) \div stride + 1

pool_time(hw) ==
    <<out_extent(hw[1], 1, 1, 0), out_extent(hw[2], 3, 2, 1)>>

\* cv: kernel (11, 3), stride (1, 1), padding (5, 1), on (frequency, time)
conv(hw) ==
    <<out_extent(hw[1], 11, 1, 5), out_extent(hw[2], 3, 1, 1)>>

\* mp: kernel (3, 1), stride (2, 1), padding (1, 0), on (frequency, time)
pool(hw) ==
    <<out_extent(hw[1], 3, 2, 1), out_extent(hw[2], 1, 1, 0)>>

\* self.feature: three stages of cv, nl, mp, bn; the channels double from C1
feature(size) ==
    LET hw == pool(conv(pool(conv(pool(conv(<<size[3], size[4]>>))))))
    IN <<size[1], C1 * 2 * 2, hw[1], hw[2]>>

\* Listener.forward(x, seq_lens): the feature map is viewed as N x T x H,
\* packed by seq_lens (each within the time extent), run through the rnns,
\* and padded back to the longest sequence, the first
Listener_forward ==
    /\ h_size = <<>>
    /\ x_size # <<>>
    /\ \A b \in DOMAIN seq_lens : seq_lens[b] <= feature(x_size)[4]
    /\ h_size' = feature(x_size)
    /\ listen_size' = <<x_size[1], seq_lens[1], rnn_hidden_size>>
    /\ UNCHANGED <<x_size, seq_lens>>

\* Listener.forward not yet called on x of shape size with lengths lens
NotListened(size, lens) ==
    /\ x_size = size /\ seq_lens = lens /\ h_size = <<>> /\ listen_size = <<>>

NoListen == NotListened(<<>>, <<>>)

listen_vars == <<x_size, seq_lens, h_size, listen_size>>

(* ---------------------------- MaskedSoftmax ---------------------------- *)
\* MaskedSoftmax.__init__: epsilon = 1e-5
epsilon == Q(1, 100000)

RECURSIVE Pow16(_)
Pow16(n) == IF n = 0 THEN 1 ELSE 16 * Pow16(n - 1)

\* torch.exp of k * ln 16 for k <= 0
exp_ln16(k) == Q(1, Pow16(-k))

\* Speller.get_mask(h, seq_lens) for h of bs samples and ts positions
get_mask(bs, ts, lens) ==
    [b \in 1..bs |-> [i \in 1..ts |-> IF i > lens[b] THEN 0 ELSE 1]]

RECURSIVE SumQ(_, _)
SumQ(row, i) == IF i > Len(row) THEN QInt(0) ELSE QAdd(row[i], SumQ(row, i + 1))

\* e.max(): the largest score of the whole tensor
tensor_max(sc) ==
    CHOOSE m \in {sc[b][i] : b \in DOMAIN sc, i \in DOMAIN sc[1]} :
        \A b \in DOMAIN sc, i \in DOMAIN sc[1] : sc[b][i] <= m

\* MaskedSoftmax.forward(e, mask) with a mask (lines 124-127)
MaskedSoftmax_forward(sc, mask) ==
    LET shift_e == [b \in DOMAIN sc |-> [i \in DOMAIN sc[b] |-> sc[b][i] - tensor_max(sc)]]
        exps == [b \in DOMAIN sc |-> [i \in DOMAIN sc[b] |->
                    QMul(exp_ln16(shift_e[b][i]), QInt(mask[b][i]))]]
        sums == [b \in DOMAIN sc |-> QAdd(SumQ(exps[b], 1), epsilon)]
    IN [b \in DOMAIN sc |-> [i \in DOMAIN sc[b] |-> QDiv(exps[b][i], sums[b])]]

\* Attention.forward, lines 172-173: the scores of one head are normalised
\* under the mask
Attention_normal ==
    /\ weights = <<>>
    /\ scores # <<>>
    /\ weights' = MaskedSoftmax_forward(scores, len_mask)
    /\ UNCHANGED <<scores, len_mask>>

\* the attention not yet called on the scores sc under the mask
NotAttended(sc, mask) == scores = sc /\ len_mask = mask /\ weights = <<>>

NoAttention == NotAttended(<<>>, <<>>)

attend_vars == <<scores, len_mask, weights>>

(* --------------------------- specifications ---------------------------- *)
vars == <<sched_vars, tfr, max_seq_lens, spell_vars, filter_vars, listen_vars,
          attend_vars>>

DrawArgs == IF Len(y_size) = 0 THEN {<<>>} ELSE {<<r>> : r \in Draws}

\* a Speller built with max_seq_lens = m, tfr = 1.0 (line 246), not yet called
SpellerInit(m) ==
    /\ NoScheduler
    /\ tfr = QInt(1)
    /\ max_seq_lens = m
    /\ NoCall

\* the decoder under the default ratio: inference and training calls
Init ==
    /\ \E m \in 1..MaxSeqLens : SpellerInit(m)
    /\ NoFilter /\ NoListen /\ NoAttention

Next ==
    /\ \/ \E bs \in 1..MaxBatch : eval_forward(bs)
       \/ \E bs \in 1..MaxTrainBatch, yl \in 0..MaxLabelLen :
             train_forward(bs, yl + num_eos)
       \/ \E am \in [Samples -> Labels], d \in DrawArgs :
             DecodeStep(am, d) /\ UNCHANGED <<tfr, max_seq_lens>>
       \/ eval_forward_return
       \/ train_forward_return
    /\ UNCHANGED <<sched_vars, filter_vars, listen_vars, attend_vars>>

Spec == Init /\ [][Next]_vars

\* the decoder under the ratios a scheduler writes
InitSample ==
    /\ \E m \in 1..MaxSampleSeqLens : SpellerInit(m)
    /\ NoFilter /\ NoListen /\ NoAttention

NextSample ==
    /\ \/ \E r \in Draws : write_tfr(r)
       \/ \E bs \in 1..MaxTrainBatch : eval_forward(bs)
       \/ \E bs \in 1..MaxTrainBatch, yl \in 0..MaxLabelLen :
             train_forward(bs, yl + num_eos)
       \/ \E am \in [Samples -> Labels], d \in DrawArgs :
             DecodeStep(am, d) /\ UNCHANGED <<tfr, max_seq_lens>>
       \/ eval_forward_return
       \/ train_forward_return
    /\ UNCHANGED <<sched_vars, filter_vars, listen_vars, attend_vars>>

SpecSample == InitSample /\ [][NextSample]_vars

\* the scheduler: constructed over a decoder whose tfr is still 1.0
InitTFR ==
    /\ \E u \in Ratios, l \in Ratios, w \in 0..MaxWarmUp, n \in 1..MaxEpochs,
          r \in BOOLEAN : TFRScheduler_init(u, l, w, n, r)
    /\ step_arg = <<>> /\ prev_epoch = -1 /\ prev_tfr = QInt(1)
    /\ tfr = QInt(1)
    /\ max_seq_lens = MaxSeqLens
    /\ NoCall
    /\ NoFilter /\ NoListen /\ NoAttention

NextTFR ==
    /\ \/ step(<<>>)
       \/ \E ep \in 0..EpochCap : step(<<ep>>)
    /\ UNCHANGED <<max_seq_lens, spell_vars, filter_vars, listen_vars, attend_vars>>

SpecTFR == InitTFR /\ [][NextTFR]_vars

LenTuples(n, S) == [1..n -> S]

\* the training path's filter, under a decoder built with max_seq_lens = m, on
\* a batch of n samples with feature lengths xl and label lengths yl
InitFilter ==
    /\ \E m \in 1..MaxSeqLens : SpellerInit(m)
    /\ \E n \in 1..MaxFilterBatch :
          \E xl \in LenTuples(n, 1..(MaxSeqLens + 2)),
             yl \in LenTuples(n, 0..(MaxSeqLens + 1)) : NotFiltered(xl, yl)
    /\ NoListen /\ NoAttention

NextFilter ==
    /\ train_filter
    /\ UNCHANGED <<sched_vars, tfr, max_seq_lens, spell_vars, listen_vars,
                   attend_vars>>

SpecFilter == InitFilter /\ [][NextFilter]_vars

Sorted(lens) == \A b \in 1..(Len(lens) - 1) : lens[b] >= lens[b + 1]

\* the encoder on a batch of n spectrograms (2 * input_folding channels, W0
\* frequencies, ts frames) with valid lengths of 1..ts, longest first
InitListen ==
    /\ SpellerInit(MaxSeqLens)
    /\ \E n \in 1..MaxListenBatch, ts \in 1..MaxTime :
          \E lens \in {l \in LenTuples(n, 1..ts) : Sorted(l)} :
             NotListened(<<n, 2 * input_folding, W0, ts>>, lens)
    /\ NoFilter /\ NoAttention

NextListen ==
    /\ Listener_forward
    /\ UNCHANGED <<sched_vars, tfr, max_seq_lens, spell_vars, filter_vars,
                   attend_vars>>

SpecListen == InitListen /\ [][NextListen]_vars

\* the attention's normalisation on the scores of bs samples at ts positions,
\* under the mask Speller.forward builds from lengths of 1..ts (line 286)
InitSoftmax ==
    /\ SpellerInit(MaxSeqLens)
    /\ \E bs \in 1..MaxAttendBatch, ts \in 1..MaxAttendTime :
          \E sc \in [1..bs -> [1..ts -> 0..MaxScore]],
             lens \in LenTuples(bs, 1..ts) :
                NotAttended(sc, get_mask(bs, ts, lens))
    /\ NoFilter /\ NoListen

NextSoftmax ==
    /\ Attention_normal
    /\ UNCHANGED <<sched_vars, tfr, max_seq_lens, spell_vars, filter_vars,
                   listen_vars>>

SpecSoftmax == InitSoftmax /\ [][NextSoftmax]_vars

(* ------------------------- properties: decoder ------------------------- *)
\* the arg-max of sample b at decode step k (counted from 0) was end-of-sequence
EosAt(b, k) == k >= 0 /\ k < Len(y_hats) /\ y_hats[k + 1][b] = eos

\* the arg-max of sample b was end-of-sequence at steps k, k+1 and k+2
TripleAt(b, k) == EosAt(b, k) /\ EosAt(b, k + 1) /\ EosAt(b, k + 2)

\* k is the first such step
FirstTripleAt(b, k) == TripleAt(b, k) /\ \A j \in 0..(k - 1) : ~ TripleAt(b, j)

\* the largest length of the batch
MaxReturnedLen ==
    CHOOSE m \in {y_hats_seq_lens[b] : b \in Samples} :
        \A b \in Samples : y_hats_seq_lens[b] <= m

\* C1: when Speller.forward has returned, every sample whose arg-max was
\* end-of-sequence at three consecutive steps k, k+1, k+2 for the first time
\* (k+2 < max_seq_lens) has the length k+3, and the loop has run no more steps
\* than the largest length of the batch.
C1_EarlyTermination ==
    pc = "returned" =>
        /\ \A b \in Samples : \A k \in 0..(max_seq_lens - num_eos) :
              FirstTripleAt(b, k) => y_hats_seq_lens[b] = k + num_eos
        /\ Len(y_hats) <= MaxReturnedLen

C1_Witness ==
    /\ pc = "returned" /\ batch_size = 2
    /\ FirstTripleAt(1, 0) /\ FirstTripleAt(2, 1)
    /\ y_hats_seq_lens = <<3, 4>>

\* C3: what _eval_forward returns for a sample is the decoder's length less
\* num_eos when that length differs from max_seq_lens, and max_seq_lens
\* otherwise.
C3_EvalLengths ==
    (pc = "returned" /\ mode = "eval") =>
        \A b \in Samples :
            out_seq_lens[b] = IF y_hats_seq_lens[b] # max_seq_lens
                              THEN y_hats_seq_lens[b] - num_eos
                              ELSE max_seq_lens

\* C7: during a forward call a sample's length is written at most once: it is
\* max_seq_lens and unwritten as long as no three consecutive steps had an
\* end-of-sequence arg-max, and from the first such run at k, k+1, k+2 on it
\* is k+3, written once, whatever runs follow.
C7_WrittenOnce ==
    pc # "idle" =>
        \A b \in Samples :
            /\ writes[b] <= 1
            /\ IF \E k \in 0..Len(y_hats) : TripleAt(b, k)
               THEN /\ writes[b] = 1
                    /\ \E k \in 0..Len(y_hats) :
                          FirstTripleAt(b, k) /\ y_hats_seq_lens[b] = k + num_eos
               ELSE /\ writes[b] = 0
                    /\ y_hats_seq_lens[b] = max_seq_lens

\* a second run of three (steps 1, 2, 3) after the length was frozen at 3
C7_Witness ==
    /\ pc # "idle"
    /\ \E b \in Samples :
          TripleAt(b, 0) /\ TripleAt(b, 1) /\ y_hats_seq_lens[b] = 3

\* C10: after a forward call on a non-empty batch with max_seq_lens >= 3, the
\* time extent of the returned distributions and of the attention trace is
\* the largest returned length, and every length lies in num_eos..max_seq_lens.
C10_StepsAndRange ==
    (pc = "returned" /\ max_seq_lens >= num_eos) =>
        /\ y_hats_size1 = MaxReturnedLen
        /\ attentions_size2 = MaxReturnedLen
        /\ \A b \in Samples :
              num_eos <= y_hats_seq_lens[b] /\ y_hats_seq_lens[b] <= max_seq_lens

\* the whole batch stopped before max_seq_lens
C10_Witness ==
    /\ pc = "returned" /\ batch_size = 2
    /\ y_hats_size1 = 3 /\ max_seq_lens > 3

\* C2 as stated: after step t-1 of a training call the decoder is fed its own
\* distribution exactly when the draw is below the ratio, and else the target
\* at that step (end-of-sequence past the targets); an inference call always
\* feeds the decoder's own distribution.
C2_OwnBelowRatio ==
    (pc = "loop" /\ t > 0) =>
        IF Len(y_size) = 0 THEN x = [src |-> "y_hat", idx |-> t - 1]
        ELSE IF QLt(draw[1], tfr) THEN x = [src |-> "y_hat", idx |-> t - 1]
        ELSE IF t - 1 < y_size[1] THEN x = [src |-> "y", idx |-> t - 1]
        ELSE x = [src |-> "eos", idx |-> -1]

\* C2 (amended): after step t-1 of a training call the decoder is fed the
\* target at that step (end-of-sequence from step y.size(1) on) exactly when
\* the draw is below the ratio, and else its own distribution; an inference
\* call draws nothing and always feeds the decoder's own distribution.
C2_TargetBelowRatio ==
    (pc = "loop" /\ t > 0) =>
        IF Len(y_size) = 0
        THEN draw = <<>> /\ x = [src |-> "y_hat", idx |-> t - 1]
        ELSE IF ~ QLt(draw[1], tfr) THEN x = [src |-> "y_hat", idx |-> t - 1]
        ELSE IF t - 1 < y_size[1] THEN x = [src |-> "y", idx |-> t - 1]
        ELSE x = [src |-> "eos", idx |-> -1]

\* a draw below a ratio a scheduler wrote, past the end of the targets
C2_Witness ==
    /\ pc = "loop" /\ t > 0 /\ Len(y_size) = 1
    /\ QLt(tfr, QInt(1)) /\ QLt(draw[1], tfr)
    /\ x.src = "eos"

(* ------------------------ properties: scheduler ------------------------ *)
\* C5: without restart, the ratio written is upper below warm_up, lower from
\* warm_up + epochs on, within [lower, upper] at every epoch, and not above
\* the ratio written at the epoch before.
C5_Schedule ==
    (~ restart /\ last_epoch >= 0) =>
        /\ last_epoch < warm_up => tfr = upper
        /\ last_epoch >= end_epochs => tfr = lower
        /\ QLe(lower, tfr) /\ QLe(tfr, upper)
        /\ (prev_epoch >= 0 /\ last_epoch = prev_epoch + 1) => QLe(tfr, prev_tfr)

\* inside the decay span, strictly between the two ends
C5_Witness ==
    /\ ~ restart /\ last_epoch = prev_epoch + 1
    /\ warm_up < last_epoch /\ last_epoch < end_epochs
    /\ QLt(lower, tfr) /\ QLt(tfr, prev_tfr) /\ QLt(prev_tfr, upper)

\* C6 as stated: with restart, step() called without an epoch when the counter
\* stands at warm_up + epochs leaves the counter at warm_up.
C6_RestartAtWarmUp ==
    (restart /\ last_epoch >= 0 /\ Len(step_arg) = 0 /\ prev_epoch = end_epochs)
        => last_epoch = warm_up

\* C6 (amended): it leaves the counter at 0, the first epoch of the schedule,
\* and writes upper.
C6_RestartAtZero ==
    (restart /\ last_epoch >= 0 /\ Len(step_arg) = 0 /\ prev_epoch = end_epochs)
        => (last_epoch = 0 /\ tfr = upper)

C6_Witness ==
    /\ restart /\ Len(step_arg) = 0 /\ prev_epoch = end_epochs
    /\ last_epoch = 0 /\ warm_up > 0 /\ QLt(lower, upper)

(* ---------------------- properties: training path ---------------------- *)
\* C4: _train_forward keeps a sample exactly when its feature length is above
\* its label length and its label length is at most max_seq_lens, and hands
\* on the lengths of the kept samples only.
C4_KeptIff ==
    keep # <<>> =>
        /\ \A b \in DOMAIN keep :
              keep[b] <=> (in_x_seq_lens[b] > in_y_seq_lens[b]
                           /\ in_y_seq_lens[b] <= max_seq_lens)
        /\ Len(x_seq_lens) = Cardinality({b \in DOMAIN keep : keep[b]})
        /\ Len(ys_seq_lens) = Len(x_seq_lens)

(* ------------------------- properties: encoder ------------------------- *)
\* one application of out = floor((in - 3 + 2) / 2) + 1
Halve(n) == (n - 3 + 2) \div 2 + 1

\* C8 as stated: the time extent of the encoder's output is the time extent
\* of its input put through the pooling formula three times.
C8_TimePooled ==
    listen_size # <<>> => listen_size[2] = Halve(Halve(Halve(x_size[4])))

\* C8 (amended): the three stages leave the time extent as it is and put the
\* frequency extent through the pooling formula three times; the time extent
\* of the encoder's output is the longest valid length of the batch, whatever
\* the batch size.
C8_TimeKept ==
    listen_size # <<>> =>
        /\ h_size[4] = x_size[4]
        /\ h_size[3] = Halve(Halve(Halve(x_size[3])))
        /\ listen_size[2] = seq_lens[1]
        /\ listen_size[1] = x_size[1]

\* a batch of three whose longest sample fills the input's five frames
C8_Witness ==
    /\ listen_size # <<>> /\ x_size[1] = 3 /\ x_size[4] = 5
    /\ seq_lens[1] = 5 /\ listen_size[2] = 5 /\ h_size[3] = 17

(* ------------------------ properties: attention ------------------------ *)
\* C9: for every sample whose mask has a 1, the weights are 0 at the masked
\* positions and sum to 1 within epsilon.
C9_SumsToOne ==
    weights # <<>> =>
        \A b \in DOMAIN weights :
            (\E i \in DOMAIN len_mask[b] : len_mask[b][i] = 1) =>
                /\ \A i \in DOMAIN weights[b] :
                      len_mask[b][i] = 0 => weights[b][i] = QInt(0)
                /\ QLe(QSub(QInt(1), SumQ(weights[b], 1)), epsilon)
                /\ QLe(QSub(SumQ(weights[b], 1), QInt(1)), epsilon)

====
